---- MODULE Spec2Model ----
(***************************************************************************)
(* Graph store and multi-mode Dijkstra engine of gps-route-optimizer       *)
(* (src/src/graph.h, src/src/graph.cpp).                                   *)
(*                                                                         *)
(* Numbers.  The code computes in double.  The model computes the same     *)
(* quantities exactly: distances are integers (meters), the factors 0.4,   *)
(* 0.6, 0.8, 1.0, 1.2, 1.4 are kept in tenths, and a travel time           *)
(*     distance / (speed * 1000.0 / 3600.0)                                *)
(* is kept as the integer  distance * (TimeScale \div (speed_limit*f*c)),  *)
(* with f, c the rush-hour factor and the crowd multiplier in tenths, that *)
(* is, in units of 360/TimeScale seconds.  TimeScale is a common multiple  *)
(* of every speed_limit*f*c the code can produce, so the division is exact *)
(* and sums and comparisons of times are those of the real numbers.        *)
(* Floating-point rounding is not modelled.                                *)
(***************************************************************************)
EXTENDS Integers, Sequences, FiniteSets, TLC

\* ------------------------------------------------------------------ bounds
\* Node identities used by the model.  0 is always among them: it is the
\* value std::unordered_map::operator[] default-inserts into `previous`.
NodeIds == {0, 1, 2}

\* Largest number of edges stored in the graph.
MaxEdges == 2

\* The road segments handed to addEdge, as (distance in meters, road class):
\* a short residential street and a motorway stretch twice as long.  The
\* three modes order them differently: by length 1 < 2, by speed-limit time
\* 2 m at 100 km/h < 1 m at 40 km/h, and in the rush hour (motorway at
\* 40 km/h) again the residential street first.
Segments == {<<1, "residential">>, <<2, "motorway">>}

\* Hours of the day handed to dijkstra: one rush hour, one quiet hour.
Hours == {8, 12}

Modes == {"DISTANCE", "SPEED_LIMIT", "LEARNED"}

\* A common multiple of every speed_limit * f * c (f, c in tenths).
TimeScale == 128 * 3 * 625 * 7 * 11 * 13

\* std::numeric_limits<double>::infinity(): above every finite cost here.
Infinity == TimeScale * 8

\* ------------------------------------------------------------------- state
VARIABLES
    nodes,           \* Graph::nodes: the identities stored by addNode
    adjacency_list,  \* Graph::adjacency_list: source id -> sequence of Edge
    pc,              \* position of the dijkstra call: idle, search, walk, done,
                     \* diverged
    start_id, end_id, mode, hour_of_day,   \* arguments of the call
    distances,       \* local distances table (operator[] default 0.0)
    previous,        \* local predecessor table (operator[] default 0)
    pq,              \* the priority queue: a set of <<dist, id>>
    current,         \* `current` of the predecessor walk
    result,          \* the RouteResult: path, total_distance, estimated_time
    weighed          \* calculateEdgeWeight applied on its own: <<>>, or the
                     \* last application with the value it returned

vars == <<nodes, adjacency_list, pc, start_id, end_id, mode, hour_of_day,
          distances, previous, pq, current, result, weighed>>

graphVars == <<nodes, adjacency_list>>
callVars == <<start_id, end_id, mode, hour_of_day>>

\* ----------------------------------------------------------- Graph::addEdge
\* speedLimitFor with a slip: the default is 0.0 instead of 50.0.
speedLimitForZeroDefault(road_type) ==
    IF road_type \in {"motorway", "motorway_link"} THEN 100
    ELSE IF road_type \in {"trunk", "trunk_link"} THEN 80
    ELSE IF road_type \in {"primary", "primary_link"} THEN 65
    ELSE IF road_type = "secondary" THEN 55
    ELSE IF road_type \in {"tertiary", "residential"} THEN 40
    ELSE IF road_type = "living_street" THEN 20
    ELSE 0

speedLimitFor(road_type) ==
    IF road_type \in {"motorway", "motorway_link"} THEN 100
    ELSE IF road_type \in {"trunk", "trunk_link"} THEN 80
    ELSE IF road_type \in {"primary", "primary_link"} THEN 65
    ELSE IF road_type = "secondary" THEN 55
    ELSE IF road_type \in {"tertiary", "residential"} THEN 40
    ELSE IF road_type = "living_street" THEN 20
    ELSE 50

\* The Edge pushed by addEdge; crowd_multiplier 1.0 is 10 tenths.
NewEdge(to, distance, road_type) ==
    [to |-> to, distance |-> distance, speed_limit |-> speedLimitFor(road_type),
     road_type |-> road_type, crowd_multiplier |-> 10]

EdgeCountOf(adj) ==
    LET RECURSIVE Sum(_)
        Sum(S) == IF S = {} THEN 0
                  ELSE LET i == CHOOSE x \in S : TRUE
                       IN Len(adj[i]) + Sum(S \ {i})
    IN Sum(DOMAIN adj)

\* Graph::getEdges: an absent key and an empty vector are both the empty
\* sequence (dijkstra iterates the vector or skips the null pointer).
getEdges(id) == adjacency_list[id]

\* ------------------------------------------------ Graph::getTimeAdjustedSpeed
\* RushFactor with a slip: in the rush hour the classes that the code leaves
\* alone are slowed like the minor roads.
RushFactorAll(edge, hour) ==
    LET morning_rush == hour >= 7 /\ hour =< 9
        evening_rush == hour >= 17 /\ hour =< 19
    IN IF morning_rush \/ evening_rush
       THEN IF edge.road_type \in {"motorway", "trunk"} THEN 4
            ELSE IF edge.road_type = "primary" THEN 6
            ELSE 8
       ELSE 10

\* The rush-hour factor of getTimeAdjustedSpeed, in tenths.
RushFactor(edge, hour) ==
    LET morning_rush == hour >= 7 /\ hour =< 9
        evening_rush == hour >= 17 /\ hour =< 19
    IN IF morning_rush \/ evening_rush
       THEN IF edge.road_type \in {"motorway", "trunk"} THEN 4
            ELSE IF edge.road_type = "primary" THEN 6
            ELSE IF edge.road_type \in {"secondary", "tertiary"} THEN 8
            ELSE 10
       ELSE 10

\* base_speed in tenths of km/h.
getTimeAdjustedSpeed(edge, hour) == edge.speed_limit * RushFactor(edge, hour)

\* distance / (speed * 1000.0 / 3600.0) for a speed of speed100/100 km/h.
TravelTime(distance, speed100) == distance * (TimeScale \div speed100)

\* ------------------------------------------------- Graph::calculateEdgeWeight
\* calculateEdgeWeight with a slip: the learned multiplier is left out.
calculateEdgeWeightNoCrowd(edge, m, hour) ==
    CASE m = "DISTANCE" -> edge.distance
      [] m = "SPEED_LIMIT" -> TravelTime(edge.distance, edge.speed_limit * 100)
      [] m = "LEARNED" ->
            TravelTime(edge.distance, getTimeAdjustedSpeed(edge, hour) * 10)

calculateEdgeWeight(edge, m, hour) ==
    CASE m = "DISTANCE" -> edge.distance
      [] m = "SPEED_LIMIT" -> TravelTime(edge.distance, edge.speed_limit * 100)
      [] m = "LEARNED" ->
            TravelTime(edge.distance,
                       getTimeAdjustedSpeed(edge, hour) * edge.crowd_multiplier)

\* ------------------------------------------------------------ Graph::dijkstra
\* pq.top() under std::greater<std::pair<double, long long>>: the smallest
\* pair, by distance and then by identity.
PairLess(a, b) == a[1] < b[1] \/ (a[1] = b[1] /\ a[2] < b[2])

Top(q) == CHOOSE a \in q : \A b \in q : a = b \/ PairLess(a, b)

\* RelaxEdge with a slip: the test compares current_dist, not new_dist.
RelaxEdgeUnweighted(st, edge, current_dist, current_id, m, h) ==
    LET weight == calculateEdgeWeight(edge, m, h)
        new_dist == current_dist + weight
    IN IF current_dist < st.d[edge.to]
       THEN [d |-> [st.d EXCEPT ![edge.to] = new_dist],
             p |-> [st.p EXCEPT ![edge.to] = current_id],
             q |-> st.q \cup {<<new_dist, edge.to>>}]
       ELSE st

\* One edge of the relaxation loop (lines 186-193) applied to the tables
\* st = [d, p, q], in a search of mode m at hour h.
RelaxEdge(st, edge, current_dist, current_id, m, h) ==
    LET weight == calculateEdgeWeight(edge, m, h)
        new_dist == current_dist + weight
    IN IF new_dist < st.d[edge.to]
       THEN [d |-> [st.d EXCEPT ![edge.to] = new_dist],
             p |-> [st.p EXCEPT ![edge.to] = current_id],
             q |-> st.q \cup {<<new_dist, edge.to>>}]
       ELSE st

\* The for loop over the edges of current_id, in insertion order.
RECURSIVE RelaxAll(_, _, _, _, _, _, _)
RelaxAll(st, edges, i, current_dist, current_id, m, h) ==
    IF i > Len(edges) THEN st
    ELSE RelaxAll(RelaxEdge(st, edges[i], current_dist, current_id, m, h),
                  edges, i + 1, current_dist, current_id, m, h)

\* Lines 172-195: one turn of the while loop that neither breaks nor skips:
\* the top entry is popped and the edges of its node are relaxed.
RelaxTop(st, m, h) ==
    LET top == Top(st.q)
    IN RelaxAll([st EXCEPT !.q = st.q \ {top}], getEdges(top[2]), 1,
                top[1], top[2], m, h)

\* Line 179: the popped entry is stale.
IsStale(st) == Top(st.q)[1] > st.d[Top(st.q)[2]]

\* InitialTables with a slip: distances[start_id] = 0.0 is left out.
InitialTablesNoStart(s) ==
    [d |-> [i \in NodeIds |-> IF i \in nodes THEN Infinity ELSE 0],
     p |-> [i \in NodeIds |-> 0],
     q |-> {<<0, s>>}]

\* Lines 159-169: the tables after initialisation.  Every stored node gets
\* distance infinity, then distances[start_id] = 0.0.  A key that is absent
\* from `distances` reads as 0.0 and one absent from `previous` reads as 0
\* (operator[] inserts the default), so the tables are total functions
\* holding those defaults.
InitialTables(s) ==
    [d |-> [i \in NodeIds |->
               IF i = s THEN 0 ELSE IF i \in nodes THEN Infinity ELSE 0],
     p |-> [i \in NodeIds |-> 0],
     q |-> {<<0, s>>}]

EmptyResult == [path |-> <<>>, total_distance |-> 0, estimated_time |-> 0]

\* Lines 139-169: the entry of dijkstra.
DijkstraCall(s, e, m, h) ==
    /\ pc = "idle"
    /\ pc' = "search"
    /\ start_id' = s /\ end_id' = e /\ mode' = m /\ hour_of_day' = h
    /\ distances' = InitialTables(s).d
    /\ previous' = InitialTables(s).p
    /\ pq' = InitialTables(s).q
    /\ current' = 0
    /\ result' = EmptyResult
    /\ UNCHANGED <<graphVars, weighed>>

Tables == [d |-> distances, p |-> previous, q |-> pq]

\* LeaveLoop with a slip: the test for an infinite distances[end_id] is
\* left out.
LeaveLoopUnchecked ==
    /\ pc' = "walk"
    /\ current' = end_id

\* Lines 198-203, run when the loop is left: if distances[end_id] is
\* infinite the empty result is returned, else the walk over the
\* predecessor links starts at end_id.
LeaveLoop ==
    /\ pc' = IF distances[end_id] = Infinity THEN "done" ELSE "walk"
    /\ current' = IF distances[end_id] = Infinity THEN current ELSE end_id

\* Lines 171-177: the extracted entry is end_id: break.
SearchBreak ==
    /\ pc = "search" /\ pq # {}
    /\ Top(pq)[2] = end_id
    /\ pq' = pq \ {Top(pq)}
    /\ LeaveLoop
    /\ UNCHANGED <<graphVars, weighed, callVars, distances, previous, result>>

\* Lines 179-181: a stale entry is dropped.
SearchStale ==
    /\ pc = "search" /\ pq # {}
    /\ Top(pq)[2] # end_id
    /\ IsStale(Tables)
    /\ pq' = pq \ {Top(pq)}
    /\ UNCHANGED <<graphVars, weighed, callVars, pc, distances, previous, current, result>>

\* Lines 183-195: the edges of the extracted node are relaxed.
SearchRelax ==
    /\ pc = "search" /\ pq # {}
    /\ Top(pq)[2] # end_id
    /\ ~IsStale(Tables)
    /\ LET st == RelaxTop(Tables, mode, hour_of_day)
       IN /\ distances' = st.d
          /\ previous' = st.p
          /\ pq' = st.q
    /\ UNCHANGED <<graphVars, weighed, callVars, pc, current, result>>

\* Line 171: the queue is empty, the loop ends.
SearchExhausted ==
    /\ pc = "search" /\ pq = {}
    /\ LeaveLoop
    /\ UNCHANGED <<graphVars, weighed, callVars, distances, previous, pq, result>>

\* Lines 204-207: one turn of the while loop.  The loop has no other exit
\* than current = start_id.  `current` is a function of the previous
\* `current` alone, and no pushed element equals start_id; so once the path
\* holds as many elements as there are identities, some identity has come
\* twice and the loop repeats from there for ever, growing result.path
\* without bound.  The model records that as pc = "diverged" instead of
\* following the loop.
WalkStep ==
    /\ pc = "walk" /\ current # start_id
    /\ Len(result.path) < Cardinality(NodeIds)
    /\ result' = [result EXCEPT !.path = Append(@, current)]
    /\ current' = previous[current]
    /\ UNCHANGED <<graphVars, weighed, callVars, pc, distances, previous, pq>>

WalkDiverges ==
    /\ pc = "walk" /\ current # start_id
    /\ Len(result.path) >= Cardinality(NodeIds)
    /\ pc' = "diverged"
    /\ UNCHANGED <<graphVars, weighed, callVars, distances, previous, pq, current, result>>

Reverse(s) == [i \in 1..Len(s) |-> s[Len(s) + 1 - i]]

\* Lines 215-224: the first edge of `edges` whose target is `to`, or 0.
RECURSIVE FirstEdgeTo(_, _, _)
FirstEdgeTo(edges, to, i) ==
    IF i > Len(edges) THEN 0
    ELSE IF edges[i].to = to THEN i
    ELSE FirstEdgeTo(edges, to, i + 1)

\* Lines 212-226: the metrics of `path` at hour h, summed from index i on.
RECURSIVE Aggregate(_, _, _, _)
Aggregate(path, i, acc, h) ==
    IF i >= Len(path) THEN acc
    ELSE LET edges == getEdges(path[i])
             k == FirstEdgeTo(edges, path[i + 1], 1)
         IN IF k = 0 THEN Aggregate(path, i + 1, acc, h)
            ELSE Aggregate(path, i + 1,
                   [total_distance |-> acc.total_distance + edges[k].distance,
                    estimated_time |-> acc.estimated_time +
                        TravelTime(edges[k].distance,
                                   getTimeAdjustedSpeed(edges[k], h)
                                       * edges[k].crowd_multiplier)],
                   h)

\* Lines 208-228: the pushed elements `walked` (end first) are closed with
\* start_id, reversed and measured.
ResultOf(walked, s, h) ==
    LET path == Reverse(Append(walked, s))
        m == Aggregate(path, 1, [total_distance |-> 0, estimated_time |-> 0], h)
    IN [path |-> path, total_distance |-> m.total_distance,
        estimated_time |-> m.estimated_time]

\* Lines 204, 208-228: the walk has reached start_id; the result is returned.
Finish ==
    /\ pc = "walk" /\ current = start_id
    /\ result' = ResultOf(result.path, start_id, hour_of_day)
    /\ pc' = "done"
    /\ UNCHANGED <<graphVars, weighed, callVars, distances, previous, pq, current>>

\* ------------------------------------------- dijkstra as a function
\* Lines 171-196 run to the end of the loop: the tables when it exits.
RECURSIVE SearchLoop(_, _, _, _)
SearchLoop(st, e, m, h) ==
    IF st.q = {} THEN st
    ELSE IF Top(st.q)[2] = e THEN [st EXCEPT !.q = st.q \ {Top(st.q)}]
    ELSE IF IsStale(st) THEN SearchLoop([st EXCEPT !.q = st.q \ {Top(st.q)}], e, m, h)
    ELSE SearchLoop(RelaxTop(st, m, h), e, m, h)

\* Lines 203-207 run to the end of the loop: the pushed elements, and
\* whether the loop ends at all (see WalkStep).
RECURSIVE PredecessorWalk(_, _, _, _)
PredecessorWalk(p, s, cur, walked) ==
    IF cur = s THEN [ends |-> TRUE, walked |-> walked]
    ELSE IF Len(walked) >= Cardinality(NodeIds) THEN [ends |-> FALSE, walked |-> walked]
    ELSE PredecessorWalk(p, s, p[cur], Append(walked, cur))

\* The whole of dijkstra(s, e, m, h) on the present graph: how the call
\* ends and the RouteResult returned.
dijkstra(s, e, m, h) ==
    LET st == SearchLoop(InitialTables(s), e, m, h)
    IN IF st.d[e] = Infinity THEN [pc |-> "done", result |-> EmptyResult]
       ELSE LET w == PredecessorWalk(st.p, s, e, <<>>)
            IN IF w.ends
               THEN [pc |-> "done", result |-> ResultOf(w.walked, s, h)]
               ELSE [pc |-> "diverged", result |-> EmptyResult]

\* -------------------------------------------------- the graph being built
\* Graph::addNode (coordinates play no part in routing and are not kept).
addNode(id) ==
    /\ pc = "idle"
    /\ nodes' = nodes \cup {id}
    /\ UNCHANGED <<adjacency_list, pc, callVars, distances, previous, pq,
                   current, result, weighed>>

\* Graph::addEdge.  Every edge of this specification keeps the
\* crowd_multiplier 1.0 it is inserted with: applyLearnedPatterns is not
\* among the actions of Spec, so here the Learned cost differs from the
\* SpeedLimit cost by the rush-hour factor alone.
addEdge(from, to, distance, road_type) ==
    /\ pc = "idle"
    /\ EdgeCountOf(adjacency_list) < MaxEdges
    /\ adjacency_list' = [adjacency_list EXCEPT
                             ![from] = Append(@, NewEdge(to, distance, road_type))]
    /\ UNCHANGED <<nodes, pc, callVars, distances, previous, pq, current, result,
                   weighed>>

\* ------------------------------------------- Graph::applyLearnedPatterns
\* The loop body with a slip: an edge that is not hit is set back to 1.0.
AnnotatedOrReset(edge, hit) ==
    IF edge.road_type \in {"motorway", "trunk"} /\ hit
    THEN [edge EXCEPT !.crowd_multiplier = 6]
    ELSE IF edge.road_type \in {"primary", "secondary"} /\ hit
    THEN [edge EXCEPT !.crowd_multiplier = 14]
    ELSE IF edge.road_type = "residential" /\ hit
    THEN [edge EXCEPT !.crowd_multiplier = 12]
    ELSE [edge EXCEPT !.crowd_multiplier = 10]

\* What the three tests of the loop body leave of one edge.  `hit` is the
\* outcome of dis(gen) < p in the one test whose class condition holds; the
\* class conditions exclude each other and && draws no number when the
\* class condition fails.
Annotated(edge, hit) ==
    IF edge.road_type \in {"motorway", "trunk"} /\ hit
    THEN [edge EXCEPT !.crowd_multiplier = 6]
    ELSE IF edge.road_type \in {"primary", "secondary"} /\ hit
    THEN [edge EXCEPT !.crowd_multiplier = 14]
    ELSE IF edge.road_type = "residential" /\ hit
    THEN [edge EXCEPT !.crowd_multiplier = 12]
    ELSE edge

\* The positions of the stored edges: <<from, index in the vector>>.
EdgePositions ==
    {<<n, i>> \in NodeIds \X (1..MaxEdges) : i =< Len(adjacency_list[n])}

\* One pass over every edge, for the random outcomes `hits`.
applyLearnedPatterns(hits) ==
    /\ pc = "idle"
    /\ adjacency_list' =
           [n \in NodeIds |->
               [i \in 1..Len(adjacency_list[n]) |->
                   Annotated(adjacency_list[n][i], <<n, i>> \in hits)]]
    /\ UNCHANGED <<nodes, pc, callVars, distances, previous, pq, current, result,
                   weighed>>

\* calculateEdgeWeight applied to the stored edge at `pos`.
calculateEdgeWeightCall(pos, m, hour) ==
    /\ pc = "idle"
    /\ weighed' = <<[edge |-> adjacency_list[pos[1]][pos[2]], mode |-> m,
                     hour |-> hour,
                     weight |-> calculateEdgeWeight(
                                   adjacency_list[pos[1]][pos[2]], m, hour)]>>
    /\ UNCHANGED <<graphVars, pc, callVars, distances, previous, pq, current,
                   result>>

Init ==
    /\ nodes = {}
    /\ adjacency_list = [i \in NodeIds |-> <<>>]
    /\ pc = "idle"
    /\ start_id = 0 /\ end_id = 0 /\ mode = "DISTANCE" /\ hour_of_day = 12
    /\ distances = [i \in NodeIds |-> 0]
    /\ previous = [i \in NodeIds |-> 0]
    /\ pq = {}
    /\ current = 0
    /\ result = EmptyResult
    /\ weighed = <<>>

Next ==
    \/ \E id \in NodeIds : addNode(id)
    \/ \E from \in NodeIds, to \in NodeIds, seg \in Segments :
          addEdge(from, to, seg[1], seg[2])
    \/ \E s \in NodeIds, e \in NodeIds, m \in Modes, h \in Hours :
          DijkstraCall(s, e, m, h)
    \/ SearchBreak
    \/ SearchStale
    \/ SearchRelax
    \/ SearchExhausted
    \/ WalkStep
    \/ WalkDiverges
    \/ Finish

Spec == Init /\ [][Next]_vars

\* ------------------------------------------------- the cost of one edge
\* Every road class the speed table names, and one it does not.
RoadTypes == {"motorway", "motorway_link", "trunk", "trunk_link", "primary",
              "primary_link", "secondary", "tertiary", "residential",
              "living_street", "unclassified"}

CostDistances == {0, 1, 3}

DayHours == 0..23

\* A graph of two nodes and one edge, as addNode, addNode, addEdge leave it.
CostInit ==
    /\ nodes = {0, 1}
    /\ \E d \in CostDistances, t \in RoadTypes :
          adjacency_list = [i \in NodeIds |->
                              IF i = 0 THEN <<NewEdge(1, d, t)>> ELSE <<>>]
    /\ pc = "idle"
    /\ start_id = 0 /\ end_id = 0 /\ mode = "DISTANCE" /\ hour_of_day = 12
    /\ distances = [i \in NodeIds |-> 0]
    /\ previous = [i \in NodeIds |-> 0]
    /\ pq = {}
    /\ current = 0
    /\ result = EmptyResult
    /\ weighed = <<>>

CostNext ==
    \/ \E hits \in SUBSET EdgePositions : applyLearnedPatterns(hits)
    \/ \E pos \in EdgePositions, m \in Modes, h \in DayHours :
          calculateEdgeWeightCall(pos, m, h)

SpecCost == CostInit /\ [][CostNext]_vars

\* --------------------------------------------- the store and its passes
\* The graph as addNode, addEdge and applyLearnedPatterns build it, with
\* every road class and with lengths of either sign as arguments of addEdge.
StoreNodeIds == {0, 1}

StoreDistances == {-1, 1}

StoreNext ==
    \/ \E id \in StoreNodeIds : addNode(id)
    \/ \E from \in StoreNodeIds :
          \E to \in StoreNodeIds \ {from}, d \in StoreDistances, t \in RoadTypes :
             addEdge(from, to, d, t)
    \/ \E hits \in SUBSET EdgePositions : applyLearnedPatterns(hits)

SpecStore == Init /\ [][StoreNext]_vars

\* =================================================================== claims
\* The call has returned a RouteResult.
Returned == pc = "done"

\* The call is over: it has returned, or it is known never to return.
Ended == pc \in {"done", "diverged"}

Min(a, b) == IF a < b THEN a ELSE b

\* The edges u -> v the engine can traverse: those whose target is a stored
\* node (an edge to an unknown identity is a dead end).
EdgesBetween(u, v) ==
    IF v \in nodes
    THEN {getEdges(u)[i] : i \in {j \in 1..Len(getEdges(u)) : getEdges(u)[j].to = v}}
    ELSE {}

\* The least weight of a set of edges in mode m at hour h (Infinity if none).
RECURSIVE LeastWeight(_, _, _)
LeastWeight(E, m, h) ==
    IF E = {} THEN Infinity
    ELSE LET e == CHOOSE x \in E : TRUE
         IN Min(calculateEdgeWeight(e, m, h), LeastWeight(E \ {e}, m, h))

\* One round of Bellman-Ford over the traversable edges.
BellmanFordRound(dist, m, h) ==
    [v \in NodeIds |->
        LET RECURSIVE Best(_, _)
            Best(U, acc) ==
                IF U = {} THEN acc
                ELSE LET u == CHOOSE x \in U : TRUE
                         w == LeastWeight(EdgesBetween(u, v), m, h)
                     IN Best(U \ {u},
                             IF dist[u] = Infinity \/ w = Infinity THEN acc
                             ELSE Min(acc, dist[u] + w))
        IN Best(NodeIds, dist[v])]

RECURSIVE BellmanFord(_, _, _, _)
BellmanFord(dist, m, h, rounds) ==
    IF rounds = 0 THEN dist
    ELSE BellmanFord(BellmanFordRound(dist, m, h), m, h, rounds - 1)

\* The least cost of a walk from s to v over traversable edges, for every v
\* (Infinity: there is no such walk).  Computed without any frontier.
MinCost(s, m, h) ==
    BellmanFord([v \in NodeIds |-> IF v = s THEN 0 ELSE Infinity], m, h,
                Cardinality(NodeIds))

\* `path` is a walk of the graph from s to e.
IsWalk(path, s, e) ==
    /\ path # <<>>
    /\ path[1] = s
    /\ path[Len(path)] = e
    /\ \A i \in 1..(Len(path) - 1) :
          \E k \in 1..Len(getEdges(path[i])) : getEdges(path[i])[k].to = path[i + 1]

\* The cost of the walk `path` when every step takes its cheapest edge.
RECURSIVE WalkCost(_, _, _, _)
WalkCost(path, i, m, h) ==
    IF i >= Len(path) THEN 0
    ELSE LET w == LeastWeight(EdgesBetween(path[i], path[i + 1]), m, h)
             rest == WalkCost(path, i + 1, m, h)
         IN IF w = Infinity \/ rest = Infinity THEN Infinity ELSE w + rest

C2_StartIsEnd ==
    (Ended /\ start_id = end_id)
    => /\ Returned
       /\ result = [path |-> <<start_id>>, total_distance |-> 0, estimated_time |-> 0]

\* Such a call returned for an identity that is not a stored node and has a
\* self-loop and another outgoing edge.
C2_Witness ==
    /\ Returned /\ start_id = end_id
    /\ start_id \notin nodes
    /\ \E i, j \in 1..Len(getEdges(start_id)) :
          getEdges(start_id)[i].to = start_id /\ getEdges(start_id)[j].to # start_id

\* C3: when start and end are distinct stored nodes and no walk over
\* traversable edges leads from start to end, the call returns the empty
\* path with total_distance 0 and estimated_time 0.
C3_NoPath ==
    (/\ Ended
     /\ start_id # end_id
     /\ start_id \in nodes /\ end_id \in nodes
     /\ MinCost(start_id, "DISTANCE", hour_of_day)[end_id] = Infinity)
    => /\ Returned
       /\ result = EmptyResult

\* Such a call returned where start has an outgoing edge, to an identity
\* that is not stored and has itself an edge to end: a dead end.
C3_Witness ==
    /\ Returned /\ start_id # end_id /\ {start_id, end_id} \subseteq nodes
    /\ result = EmptyResult
    /\ \E u \in NodeIds \ nodes :
          /\ \E i \in 1..Len(getEdges(start_id)) : getEdges(start_id)[i].to = u
          /\ \E i \in 1..Len(getEdges(u)) : getEdges(u)[i].to = end_id

\* C4: when start # end and start or end is not a stored node, the call
\* returns the empty path with total_distance 0 and estimated_time 0.
C4_AbsentEndpoint ==
    (/\ Ended
     /\ start_id # end_id
     /\ (start_id \notin nodes \/ end_id \notin nodes))
    => /\ Returned
       /\ result = EmptyResult

\* C5: every call returns: the search loop and the predecessor walk end.
C5_CallReturns == pc # "diverged"

\* C6: every non-empty path returned is a walk of the graph from start to
\* end.
C6_PathIsWalk ==
    (Returned /\ result.path # <<>>) => IsWalk(result.path, start_id, end_id)

\* C7: every identity in a returned path is a stored node.
C7_PathNodesStored ==
    Returned => \A i \in 1..Len(result.path) : result.path[i] \in nodes

\* The edge the search relaxed to reach v from its predecessor u: the first
\* edge u -> v whose weight is the difference of the two final distances.
RelaxedEdge(u, v) ==
    LET edges == getEdges(u)
        fits == {k \in 1..Len(edges) :
                    /\ edges[k].to = v
                    /\ distances[u] + calculateEdgeWeight(edges[k], mode, hour_of_day)
                          = distances[v]}
    IN edges[CHOOSE k \in fits : \A j \in fits : k =< j]

HasRelaxedEdges(path) ==
    \A i \in 1..(Len(path) - 1) :
        \E k \in 1..Len(getEdges(path[i])) :
            /\ getEdges(path[i])[k].to = path[i + 1]
            /\ distances[path[i]]
                  + calculateEdgeWeight(getEdges(path[i])[k], mode, hour_of_day)
                  = distances[path[i + 1]]

RECURSIVE RelaxedDistance(_, _)
RelaxedDistance(path, i) ==
    IF i >= Len(path) THEN 0
    ELSE RelaxedEdge(path[i], path[i + 1]).distance + RelaxedDistance(path, i + 1)

\* The Learned-style time of an edge at hour h.
LearnedTime(edge, h) ==
    TravelTime(edge.distance, getTimeAdjustedSpeed(edge, h) * edge.crowd_multiplier)

RECURSIVE RelaxedTime(_, _, _)
RelaxedTime(path, i, h) ==
    IF i >= Len(path) THEN 0
    ELSE LearnedTime(RelaxedEdge(path[i], path[i + 1]), h) + RelaxedTime(path, i + 1, h)

\* A path found between stored nodes.
PathFound ==
    /\ Returned /\ result.path # <<>>
    /\ start_id \in nodes /\ end_id \in nodes
    /\ HasRelaxedEdges(result.path)

\* C8: for a path found, total_distance is the sum of the stored distances
\* of the edges the search relaxed along the path, in every mode; in
\* Distance mode it is the distance the search computed for end.
C8_ReportedDistance ==
    PathFound
    => /\ result.total_distance = RelaxedDistance(result.path, 1)
       /\ mode = "DISTANCE" => result.total_distance = distances[end_id]

\* The rush-hour classes of the road network.
RushClasses == {"motorway", "trunk", "primary", "secondary", "tertiary"}

\* The edges the metric aggregation counts along `path`.
CountedEdges(path) ==
    {getEdges(path[i])[FirstEdgeTo(getEdges(path[i]), path[i + 1], 1)] :
        i \in {j \in 1..(Len(path) - 1) :
                  FirstEdgeTo(getEdges(path[j]), path[j + 1], 1) # 0}}

\* C9 as amended: in SpeedLimit mode the calls at hour 8 and at hour 12 end
\* alike and return the same path and the same total_distance; their
\* estimated_time is the same when no edge counted along the path is of a
\* rush-hour class, and larger at hour 8 when one of positive length is.
C9_SpeedLimitHours ==
    (Ended /\ mode = "SPEED_LIMIT")
    => LET r8 == dijkstra(start_id, end_id, "SPEED_LIMIT", 8)
           r12 == dijkstra(start_id, end_id, "SPEED_LIMIT", 12)
           own == IF hour_of_day = 8 THEN r8 ELSE r12
           rush == {e \in CountedEdges(r8.result.path) :
                       e.road_type \in RushClasses /\ e.distance > 0}
       IN /\ pc = own.pc
          /\ Returned => result = own.result
          /\ r8.pc = r12.pc
          /\ r8.result.path = r12.result.path
          /\ r8.result.total_distance = r12.result.total_distance
          /\ rush = {} => r8.result.estimated_time = r12.result.estimated_time
          /\ rush # {} => r8.result.estimated_time > r12.result.estimated_time

\* A SpeedLimit call at hour 8 returned a path of two edges, one of them a
\* motorway.
C9_Witness ==
    /\ Returned /\ mode = "SPEED_LIMIT" /\ hour_of_day = 8
    /\ Len(result.path) = 3
    /\ \E e \in CountedEdges(result.path) : e.road_type = "motorway"

\* C9 as claimed: the SpeedLimit results at hour 8 and at hour 12 are the
\* same in path, total_distance and estimated_time.
C9_SameResult ==
    (Ended /\ mode = "SPEED_LIMIT")
    => dijkstra(start_id, end_id, "SPEED_LIMIT", 8)
          = dijkstra(start_id, end_id, "SPEED_LIMIT", 12)

\* C10: for a path found, in every mode, estimated_time is the sum of the
\* Learned-style times of the edges of the path; in Learned mode it is the
\* cost the search computed for end.
C10_ReportedTime ==
    PathFound
    => /\ result.estimated_time = RelaxedTime(result.path, 1, hour_of_day)
       /\ mode = "LEARNED" => result.estimated_time = distances[end_id]

\* ---------------------------------------------------------------- C11
\* The factor the claim gives for a road class and an hour, in tenths.
RushHours == {7, 8, 9, 17, 18, 19}

ClaimedFactor(road_type, hour) ==
    IF hour \in RushHours
    THEN IF road_type \in {"motorway", "trunk"} THEN 4
         ELSE IF road_type = "primary" THEN 6
         ELSE IF road_type \in {"secondary", "tertiary"} THEN 8
         ELSE 10
    ELSE 10

\* C11: the Learned cost of an edge at an hour is
\* distance / (speed_limit * f * crowd_multiplier * 1000/3600) with the f of
\* the claim's table; outside the rush hours it is the SpeedLimit cost
\* divided by the crowd multiplier; a motorway edge of multiplier 1.0 costs
\* the travel time of 40 km/h at hour 8 and of 100 km/h at hour 12.  The
\* quotients are stated multiplied out: a time t for a speed of v km/h is
\* the t with t * (v * 100) = distance * TimeScale.
C11_LearnedCost ==
    (weighed # <<>> /\ weighed[1].mode = "LEARNED")
    => LET e == weighed[1].edge
           h == weighed[1].hour
           w == weighed[1].weight
       IN /\ w * (e.speed_limit * ClaimedFactor(e.road_type, h)
                    * e.crowd_multiplier)
                = e.distance * TimeScale
          /\ h \notin RushHours
                => w * e.crowd_multiplier
                     = 10 * calculateEdgeWeight(e, "SPEED_LIMIT", h)
          /\ (e.road_type = "motorway" /\ e.crowd_multiplier = 10 /\ h = 8)
                => w * (40 * 100) = e.distance * TimeScale
          /\ (e.road_type = "motorway" /\ e.crowd_multiplier = 10 /\ h = 12)
                => w * (100 * 100) = e.distance * TimeScale

\* A congested motorway edge of positive length weighed in the rush hour:
\* both the rush factor and the learned multiplier take part.
C11_Witness ==
    /\ weighed # <<>>
    /\ weighed[1].mode = "LEARNED"
    /\ weighed[1].hour = 8
    /\ weighed[1].edge.road_type = "motorway"
    /\ weighed[1].edge.crowd_multiplier = 6
    /\ weighed[1].edge.distance = 3
    /\ weighed[1].weight > 0

\* ---------------------------------------------------------------- C12
\* The stored edges, each with its position.
StoredEdge(pos) == adjacency_list[pos[1]][pos[2]]

\* C12: addEdge with a negative distance is rejected and leaves the graph
\* unchanged, so every stored edge has distance >= 0.
C12_NoNegativeDistance ==
    \A pos \in EdgePositions : StoredEdge(pos).distance >= 0

\* ---------------------------------------------------------------- C13
\* The speed limit the claim gives a road class, in km/h.
ClaimedSpeed(road_type) ==
    CASE road_type \in {"motorway", "motorway_link"} -> 100
      [] road_type \in {"trunk", "trunk_link"} -> 80
      [] road_type \in {"primary", "primary_link"} -> 65
      [] road_type = "secondary" -> 55
      [] road_type \in {"tertiary", "residential"} -> 40
      [] road_type = "living_street" -> 20
      [] OTHER -> 50

\* C13: after any sequence of addNode, addEdge (any road class) and
\* applyLearnedPatterns, every stored edge has a positive speed_limit, the
\* one of its road class with 50 for an unrecognised class, and a positive
\* crowd_multiplier; and no step changes the speed_limit of a stored edge.
C13_SpeedAndCrowdPositive ==
    /\ [](\A pos \in EdgePositions :
             /\ StoredEdge(pos).speed_limit > 0
             /\ StoredEdge(pos).speed_limit = ClaimedSpeed(StoredEdge(pos).road_type)
             /\ StoredEdge(pos).crowd_multiplier > 0)
    /\ [][\A pos \in EdgePositions :
             StoredEdge(pos)'.speed_limit = StoredEdge(pos).speed_limit]_vars

\* An edge of an unrecognised class is stored, and a pass has changed the
\* multiplier of an edge that was inserted with 1.0.
C13_Witness ==
    \E p \in EdgePositions, q \in EdgePositions :
        /\ StoredEdge(p).road_type = "unclassified"
        /\ StoredEdge(p).speed_limit = 50
        /\ StoredEdge(q).crowd_multiplier # 10

\* ---------------------------------------------------------------- C14
\* The multipliers the claim allows an edge of a road class, in tenths.
ClaimedMultipliers(road_type) ==
    CASE road_type \in {"motorway", "trunk"} -> {10, 6}
      [] road_type \in {"primary", "secondary"} -> {10, 14}
      [] road_type = "residential" -> {10, 12}
      [] OTHER -> {10}

\* The value a pass can write to an edge of a road class: none for the
\* classes that no pass touches.
ClaimedTargets(road_type) == ClaimedMultipliers(road_type) \ {10}

\* C14: an edge only ever holds the multipliers of its class (1.0 or 0.6
\* for motorway and trunk, 1.0 or 1.4 for primary and secondary, 1.0 or 1.2
\* for residential, 1.0 for any other class); in every step a stored edge
\* keeps the multiplier it had or takes the value of its class, so an edge
\* that is not selected is never set back to 1.0; and a step that changes a
\* multiplier changes no other field of any edge, no node and no edge count.
C14_PassesPersist ==
    /\ [](\A pos \in EdgePositions :
             StoredEdge(pos).crowd_multiplier
                \in ClaimedMultipliers(StoredEdge(pos).road_type))
    /\ [][\A pos \in EdgePositions :
             /\ StoredEdge(pos)'.crowd_multiplier
                   \in {StoredEdge(pos).crowd_multiplier}
                        \cup ClaimedTargets(StoredEdge(pos).road_type)
             /\ StoredEdge(pos)'.crowd_multiplier # StoredEdge(pos).crowd_multiplier
                   => /\ nodes' = nodes
                      /\ \A n \in NodeIds :
                            Len(adjacency_list'[n]) = Len(adjacency_list[n])
                      /\ \A other \in EdgePositions :
                            [StoredEdge(other)' EXCEPT !.crowd_multiplier = 0]
                              = [StoredEdge(other) EXCEPT !.crowd_multiplier = 0]]_vars

\* Two motorway edges after a pass, one holding 0.6 and one still at 1.0,
\* beside which a node is stored.
C14_Witness ==
    /\ nodes # {}
    /\ \E p \in EdgePositions, q \in EdgePositions :
          /\ StoredEdge(p).road_type = "motorway"
          /\ StoredEdge(p).crowd_multiplier = 6
          /\ StoredEdge(q).road_type = "motorway"
          /\ StoredEdge(q).crowd_multiplier = 10

====
